---------------------------- MODULE Spec2Model ----------------------------
(***************************************************************************)
(* Note-taking backend (src/index.js): accounts, session tokens and the    *)
(* owner-scoped note routes, as a state machine of concurrently handled    *)
(* HTTP requests over a document store.                                    *)
(*                                                                         *)
(* A request occupies one slot of Req.  Each action is the code a handler  *)
(* runs between two awaits: the store call that the await waits for takes  *)
(* effect at the beginning of the action that resumes the handler.         *)
(***************************************************************************)
EXTENDS Integers, Sequences, FiniteSets, TLC

\* ------------------------------------------------------------------ bounds
MaxStarted == 4      \* requests accepted in one behaviour
MaxTime == 61        \* last clock reading, in minutes

\* --------------------------------------------------------------- constants
TokenTTL == 60       \* expiresIn: "1h", in minutes
PwMin == 5           \* isLength({ min: 5, max: 25 })
PwMax == 25
BcryptCost == 10     \* bcrypt.hash(password, 10)

Req == {1, 2}                           \* slots of requests in flight at once

Emails == {"alice@x.com", "bob@x.com"}
Passwords == {<<"p", "a", "s", "s", "1">>, <<"p", "a", "s", "s", "2">>}

\* request bodies of POST /create-account: the valid ones, and one per failing validator
RegisterInputs ==
  [fullName : {"Alice A"}, email : Emails, password : Passwords]
  \cup {[fullName |-> "R2D2", email |-> "alice@x.com", password |-> <<"p", "a", "s", "s", "1">>],
        [fullName |-> "Alice A", email |-> "not-an-email", password |-> <<"p", "a", "s", "s", "1">>],
        [fullName |-> "Alice A", email |-> "alice@x.com", password |-> <<"p", "w">>]}

\* request bodies of POST /login
LoginInputs ==
  [email : Emails, password : Passwords]
  \cup {[email |-> "not-an-email", password |-> <<"p", "a", "s", "s", "1">>],
        [email |-> "alice@x.com", password |-> <<>>]}
Salts == {"saltA"}
Secret == "ACCESS_TOKEN_SECRET"
ForeignKey == "attacker-key"
StoreOutcomes == {"ok", "error"}        \* a store call answers or throws

VARIABLES
  users,      \* the user collection: a set of documents
  notes,      \* the note collection: a set of documents
  now,        \* the clock, in minutes
  req,        \* req[r]: the request handled in slot r
  tokens,     \* access tokens sent to clients so far
  started,    \* number of requests accepted so far
  oidSeq      \* ObjectIds generated so far

vars == <<users, notes, now, req, tokens, started, oidSeq>>

\* ----------------------------------------------------------- input checks
\* body("fullName").notEmpty().matches(/^[A-Za-z\s']+$/)
NameOk(fullName) == fullName \in {"Alice A"}

\* body("email").notEmpty().isEmail()
IsEmail(email) == email \in {"alice@x.com", "bob@x.com"}

\* body("password").notEmpty().isLength({ min: 5, max: 25 })
PasswordOk(password) == Len(password) >= PwMin /\ Len(password) <= PwMax

\* errors.array() of the create-account validators
RegisterErrors(fullName, email, password) ==
  (IF NameOk(fullName) THEN <<>> ELSE <<"Full name must not contain numbers">>)
  \o (IF IsEmail(email) THEN <<>> ELSE <<"Invalid email format">>)
  \o (IF PasswordOk(password) THEN <<>>
      ELSE <<"Password must be between 5 and 25 characters">>)

\* errors.array() of the login validators
LoginErrors(email, password) ==
  (IF IsEmail(email) THEN <<>> ELSE <<"Invalid email format">>)
  \o (IF Len(password) > 0 THEN <<>> ELSE <<"Password is required">>)

\* ------------------------------------------------------------- credentials
\* bcrypt.hash(password, 10): "$2b$10$" ++ salt ++ digest of (salt, password)
Hash(password, salt) == <<"$2b$", ToString(BcryptCost), salt>> \o password

\* a comparison that accepts every password
CompareAny(password, hash) == Len(hash) >= 3

\* bcrypt.compare(password, hash): rehash with the salt found in the hash
Compare(password, hash) ==
  /\ Len(hash) >= 3
  /\ Hash(password, hash[3]) = hash

\* ------------------------------------------------------------------ tokens
Sign(key, payload, iat, exp) == <<key, payload, iat, exp>>

\* a token signed with expiresIn: "2h"
IssueTokenTwoHours(payload, t) ==
  [payload |-> payload, iat |-> t, exp |-> t + 2 * TokenTTL,
   sig |-> Sign(Secret, payload, t, t + 2 * TokenTTL)]

\* jwt.sign(payload, process.env.ACCESS_TOKEN_SECRET, { expiresIn: "1h" })
IssueToken(payload, t) ==
  [payload |-> payload, iat |-> t, exp |-> t + TokenTTL,
   sig |-> Sign(Secret, payload, t, t + TokenTTL)]

\* ---------------------------------------------------------------- requests
Idle == [op |-> "none", pc |-> "idle"]

NoResponse == [status |-> 0]

Json(status, body) == [status |-> status, body |-> body]

ErrorBody(message) == [error |-> TRUE, message |-> message]

ValidationError(details) ==
  Json(400, [error |-> TRUE, message |-> "Validation error", details |-> details])

InternalError(message) == Json(500, ErrorBody(message))

\* a request just accepted: its inputs, nothing looked up, no store call made
Accept(op, in, pc) ==
  [op |-> op, pc |-> pc, in |-> in, user |-> {}, doc |-> {},
   gate |-> "none", calls |-> 0, fault |-> FALSE, resp |-> NoResponse]

Respond(q, resp) == [q EXCEPT !.pc = "done", !.resp = resp]

\* the request made a store call that answered
Called(q) == [q EXCEPT !.calls = @ + 1]

\* the request made a store call that threw
Threw(q) == [q EXCEPT !.calls = @ + 1, !.fault = TRUE]

\* the handler of slot s has returned (res.status(401) alone sends nothing: "hung")
Returned(s) == req[s].pc \in {"idle", "done", "hung"}

\* slot r takes the next request: the lowest free slot, while the budget lasts
Free(r) ==
  /\ Returned(r)
  /\ \A s \in Req : s < r => ~Returned(s)
  /\ started < MaxStarted

\* slot r moves on to q; the responses sent before this step have left the server
Step(r, q) ==
  [s \in Req |-> IF s = r THEN q ELSE IF Returned(s) THEN Idle ELSE req[s]]

\* the access tokens a response hands to the client
Sent(resp) ==
  IF "body" \in DOMAIN resp /\ "accessToken" \in DOMAIN resp.body
  THEN {resp.body.accessToken}
  ELSE {}

Init ==
  /\ users = {}
  /\ notes = {}
  /\ now = 0
  /\ req = [r \in Req |-> Idle]
  /\ tokens = {}
  /\ started = 0
  /\ oidSeq = 0

\* ---------------------------------------------------------- create-account
\* the response of a successful registration
RegisterSuccess(user, accessToken) ==
  Json(200, [error |-> FALSE, user |-> user, accessToken |-> accessToken,
             message |-> "Registration Successful"])

\* POST /create-account arrives: validators, then User.findOne is called
CreateAccountRecv(r, in) ==
  /\ Free(r)
  /\ LET errs == RegisterErrors(in.fullName, in.email, in.password)
     IN req' = Step(r,
                  IF errs # <<>>
                  THEN Respond(Accept("create-account", in, "recv"), ValidationError(errs))
                  ELSE Accept("create-account", in, "find"))
  /\ started' = started + 1
  /\ UNCHANGED <<users, notes, now, tokens, oidSeq>>

\* a mistaken filter: the raw password is never what is stored
ExistingUserByEmailAndPassword(coll, in) ==
  {u \in coll : u.email = in.email /\ u.password = in.password}

\* the documents User.findOne({ email }) matches: case-sensitive, exact
ExistingUser(coll, in) == {u \in coll : u.email = in.email}

\* User.findOne({ email }) answers
CreateAccountFind(r, outcome) ==
  /\ req[r].op = "create-account"
  /\ req[r].pc = "find"
  /\ LET q == req[r]
         found == ExistingUser(users, q.in)
     IN req' = Step(r,
                  IF outcome = "error"
                  THEN Respond(Threw(q), InternalError("Internal Server Error"))
                  ELSE IF found # {}
                  THEN Respond(Called(q), Json(400, ErrorBody("User already exists")))
                  ELSE [Called(q) EXCEPT !.pc = "save"])
  /\ UNCHANGED <<users, notes, now, tokens, started, oidSeq>>

\* the document new User({ fullName, email, password: hashedPassword }) builds
NewUser(id, in, salt, t) ==
  [_id |-> id, fullName |-> in.fullName, email |-> in.email,
   password |-> Hash(in.password, salt), createdOn |-> t]

\* an insert that replaces the stored account of the same email
InsertUserUpsert(coll, user) == {u \in coll : u.email # user.email} \cup {user}

\* the insert user.save() sends: userSchema declares no unique index
InsertUser(coll, user) == coll \cup {user}

\* bcrypt.hash resolves, user.save() answers, the token is signed and sent
CreateAccountSave(r, salt, outcome) ==
  /\ req[r].op = "create-account"
  /\ req[r].pc = "save"
  /\ LET q == req[r]
         user == NewUser(oidSeq + 1, q.in, salt, now)
     IN /\ oidSeq' = oidSeq + 1
        /\ IF outcome = "error"
           THEN /\ req' = Step(r,
                             Respond(Threw(q), InternalError("Internal Server Error")))
                /\ users' = users
           ELSE /\ users' = InsertUser(users, user)
                /\ req' = Step(r,
                             Respond([Called(q) EXCEPT !.doc = {user}],
                                     RegisterSuccess(user, IssueToken([user |-> user], now))))
  /\ tokens' = tokens \cup Sent(req'[r].resp)
  /\ UNCHANGED <<notes, now, started>>

\* -------------------------------------------------------------------- login
LoginSuccess(email, accessToken) ==
  Json(200, [error |-> FALSE, message |-> "Login Successfull", email |-> email,
             accessToken |-> accessToken])

\* a login that answers a wrong password with 401
LoginResponse401(found, email, password, t) ==
  IF found = {}
  THEN Json(400, ErrorBody("User not found, check your email"))
  ELSE LET userInfo == CHOOSE u \in found : TRUE
       IN IF userInfo.email = email /\ Compare(password, userInfo.password)
          THEN LoginSuccess(email, IssueToken([user |-> userInfo], t))
          ELSE Json(401, ErrorBody("Invalid Credential"))

\* the response of POST /login once User.findOne has answered with `found`
LoginResponse(found, email, password, t) ==
  IF found = {}
  THEN Json(400, ErrorBody("User not found, check your email"))
  ELSE LET userInfo == CHOOSE u \in found : TRUE
       IN IF userInfo.email = email /\ Compare(password, userInfo.password)
          THEN LoginSuccess(email, IssueToken([user |-> userInfo], t))
          ELSE Json(400, ErrorBody("Invalid Credential"))

\* POST /login arrives: validators, then User.findOne is called
LoginRecv(r, in) ==
  /\ Free(r)
  /\ LET errs == LoginErrors(in.email, in.password)
     IN req' = Step(r,
                  IF errs # <<>>
                  THEN Respond(Accept("login", in, "recv"), ValidationError(errs))
                  ELSE Accept("login", in, "find"))
  /\ started' = started + 1
  /\ UNCHANGED <<users, notes, now, tokens, oidSeq>>

\* the documents User.findOne(filter) may answer with: one of the matches
FindOne(coll, match(_)) ==
  LET hits == {d \in coll : match(d)}
  IN IF hits = {} THEN {{}} ELSE {{d} : d \in hits}

\* User.findOne({ email }) answers, bcrypt.compare resolves, the response is sent
LoginFind(r, outcome) ==
  /\ req[r].op = "login"
  /\ req[r].pc = "find"
  /\ LET q == req[r]
         ByEmail(u) == u.email = q.in.email
     IN \E found \in FindOne(users, ByEmail) :
          req' = Step(r,
                    IF outcome = "error"
                    THEN Respond(Threw(q), InternalError("Internal Server Error"))
                    ELSE Respond([Called(q) EXCEPT !.doc = found],
                                 LoginResponse(found, q.in.email, q.in.password, now)))
  /\ tokens' = tokens \cup Sent(req'[r].resp)
  /\ UNCHANGED <<users, notes, now, started, oidSeq>>

\* ------------------------------------------------------- token validation
NoToken == [none |-> TRUE]

\* a token signed by somebody who does not hold the secret, naming account id
Forged(id) ==
  [payload |-> [user |-> [_id |-> id]], iat |-> 0, exp |-> MaxTime + TokenTTL,
   sig |-> Sign(ForeignKey, [user |-> [_id |-> id]], 0, MaxTime + TokenTTL)]

\* an issued token whose payload was changed to name account id, signature kept
Tamper(tok, id) == [tok EXCEPT !.payload.user._id = id]

\* ValidateToken: signature first, then expiry; the payload becomes req.user
Authenticate(tok, t) ==
  IF tok = NoToken
    THEN [ok |-> FALSE, kind |-> "Unauthenticated"]
  ELSE IF tok.sig # Sign(Secret, tok.payload, tok.iat, tok.exp)
    THEN [ok |-> FALSE, kind |-> "InvalidToken"]
  ELSE IF ~(t < tok.exp)
    THEN [ok |-> FALSE, kind |-> "ExpiredToken"]
  ELSE [ok |-> TRUE, payload |-> tok.payload]

\* the response of the middleware when validation fails
AuthError(kind) == Json(401, ErrorBody(kind))

\* a route table in which delete-note was declared without the middleware
ProtectedButDelete(op) ==
  op \in {"get-user", "add-notes", "edit-notes", "get-all-notes",
          "update-note-ispinned", "search-notes"}

\* the routes declared with authenticateToken as their first middleware
Protected(op) ==
  op \in {"get-user", "add-notes", "edit-notes", "get-all-notes", "delete-note",
          "update-note-ispinned", "search-notes"}

\* a request enters its route: the middleware runs before the handler, and the
\* handler starts with const { user } = req.user, outside its try block
Enter(op, in, t) ==
  LET q == Accept(op, in, "handler")
  IN IF Protected(op)
     THEN LET a == Authenticate(in.token, t)
          IN IF a.ok
             THEN [q EXCEPT !.gate = "passed", !.user = {a.payload.user}]
             ELSE Respond([q EXCEPT !.gate = "failed"], AuthError(a.kind))
     ELSE [q EXCEPT !.pc = "hung"]

\* the tokens a client may put in the authorization header: none, one it was
\* sent, or one it was sent with the payload changed to name another account
TokenInputs ==
  {NoToken} \cup tokens \cup {Tamper(tok, u._id) : tok \in tokens, u \in users}

\* the same, and tokens signed with a key of the client's own
AnyTokenInputs == TokenInputs \cup {Forged(u._id) : u \in users}

\* ----------------------------------------------------------------- get-user
GetUserSuccess(isUser) ==
  Json(200, [error |-> FALSE,
             user |-> [FullName |-> isUser.fullName, email |-> isUser.email,
                       _id |-> isUser._id, createdOn |-> isUser.createdOn],
             message |-> "User retrieved successfully"])

\* a lookup of the account by the email in the token
SameEmail(user, u) == u.email = user.email

\* the filter { _id: user._id }
SameId(user, u) == u._id = user._id

\* GET /get-user arrives: authenticateToken, then User.findOne is called
GetUserRecv(r, in) ==
  /\ Free(r)
  /\ LET q == Enter("get-user", in, now)
     IN req' = Step(r, IF q.pc = "handler" THEN [q EXCEPT !.pc = "find"] ELSE q)
  /\ started' = started + 1
  /\ UNCHANGED <<users, notes, now, tokens, oidSeq>>

\* User.findOne({ _id: user._id }) answers
GetUserFind(r, outcome) ==
  /\ req[r].op = "get-user"
  /\ req[r].pc = "find"
  /\ LET q == req[r]
         user == CHOOSE u \in q.user : TRUE
         ById(u) == SameId(user, u)
     IN \E found \in FindOne(users, ById) :
          req' = Step(r,
                    IF outcome = "error"
                    THEN Respond(Threw(q),
                                 InternalError("An error occurred while retrieving user data."))
                    ELSE IF found = {}
                    THEN [Called(q) EXCEPT !.pc = "hung"]
                    ELSE Respond([Called(q) EXCEPT !.doc = found],
                                 GetUserSuccess(CHOOSE u \in found : TRUE)))
  /\ UNCHANGED <<users, notes, now, tokens, started, oidSeq>>

\* ---------------------------------------------------------------- add-notes
\* errors.array() of the validators of add-notes and edit-notes
NoteErrors(in) ==
  (IF Len(in.title) <= 225 THEN <<>> ELSE <<"Title must be less than 225 characters">>)
  \o (IF in.tags # {} THEN <<>> ELSE <<"Tags must be an array">>)
  \o (IF in.content # <<>> THEN <<>> ELSE <<"Content is required">>)

\* a note that takes its own id as owner id
NewNoteOwnedByItself(id, in, user, t) ==
  [_id |-> id, title |-> in.title, content |-> in.content,
   tags |-> (CHOOSE x \in in.tags : TRUE), isPinned |-> FALSE,
   userId |-> id, createdOn |-> t]

\* the document new Note({ title, content, tags: tags || [], userId: user._id }) builds
NewNote(id, in, user, t) ==
  [_id |-> id, title |-> in.title, content |-> in.content,
   tags |-> (CHOOSE x \in in.tags : TRUE), isPinned |-> FALSE,
   userId |-> user._id, createdOn |-> t]

\* POST /add-notes arrives: authenticateToken, validators, note.save() is called
AddNotesRecv(r, in) ==
  /\ Free(r)
  /\ LET q == Enter("add-notes", in, now)
         errs == NoteErrors(in)
     IN req' = Step(r,
                  IF q.pc # "handler" THEN q
                  ELSE IF errs # <<>> THEN Respond(q, ValidationError(errs))
                  ELSE IF in.title = <<>> THEN Respond(q, Json(400, ErrorBody("Title is required")))
                  ELSE IF in.content = <<>>
                  THEN Respond(q, Json(400, ErrorBody("Content is required")))
                  ELSE [q EXCEPT !.pc = "save"])
  /\ started' = started + 1
  /\ UNCHANGED <<users, notes, now, tokens, oidSeq>>

\* note.save() answers
AddNotesSave(r, outcome) ==
  /\ req[r].op = "add-notes"
  /\ req[r].pc = "save"
  /\ LET q == req[r]
         note == NewNote(oidSeq + 1, q.in, CHOOSE u \in q.user : TRUE, now)
     IN /\ oidSeq' = oidSeq + 1
        /\ IF outcome = "error"
           THEN /\ req' = Step(r,
                             Respond(Threw(q), InternalError("Internal Server Error")))
                /\ notes' = notes
           ELSE /\ notes' = notes \cup {note}
                /\ req' = Step(r,
                             Respond([Called(q) EXCEPT !.doc = {note}],
                                     Json(201, [error |-> FALSE, note |-> note,
                                                message |-> "New note has been created"])))
  /\ UNCHANGED <<users, now, tokens, started>>

\* --------------------------------------------------------------- edit-notes
\* the note Note.findOne answered with, after the handler's assignments
Edited(note, in) ==
  [note EXCEPT
     !.title = IF in.title # <<>> THEN in.title ELSE @,
     !.content = IF in.content # <<>> THEN in.content ELSE @,
     !.tags = IF in.tags # {} THEN CHOOSE x \in in.tags : TRUE ELSE @,
     !.isPinned = IF in.isPinned = {TRUE} THEN TRUE ELSE @]

\* the paths of a loaded document that the handler changed
Modified(loaded, local) == {f \in DOMAIN loaded : loaded[f] # local[f]}

\* note.save() of a loaded document: $set of the modified paths on the document
\* with that _id; nothing is sent when no path was modified
SaveNote(coll, loaded, local) ==
  {IF d._id = loaded._id
   THEN [f \in DOMAIN d |-> IF f \in Modified(loaded, local) THEN local[f] ELSE d[f]]
   ELSE d : d \in coll}

\* save() of a modified document that is no longer stored throws
SaveThrows(coll, loaded, local) ==
  /\ Modified(loaded, local) # {}
  /\ ~\E d \in coll : d._id = loaded._id

\* PUT /edit-notes/:noteId arrives: authenticateToken, validators, Note.findOne is called
EditNotesRecv(r, in) ==
  /\ Free(r)
  /\ LET q == Enter("edit-notes", in, now)
         errs == NoteErrors(in)
     IN req' = Step(r,
                  IF q.pc # "handler" THEN q
                  ELSE IF errs # <<>> THEN Respond(q, ValidationError(errs))
                  ELSE IF in.title = <<>> /\ in.content = <<>> /\ in.tags = {}
                  THEN Respond(q, Json(400, ErrorBody("No Changes Provided")))
                  ELSE [q EXCEPT !.pc = "find"])
  /\ started' = started + 1
  /\ UNCHANGED <<users, notes, now, tokens, oidSeq>>

\* a filter that leaves the owner out
AnyNote(q, d) == d._id = q.in.noteId

\* the filter { _id: noteId, userId: user._id }
OwnNote(q, d) == d._id = q.in.noteId /\ d.userId = (CHOOSE u \in q.user : TRUE)._id

\* Note.findOne({ _id: noteId, userId: user._id }) answers; note.save() is called
EditNotesFind(r, outcome) ==
  /\ req[r].op = "edit-notes"
  /\ req[r].pc = "find"
  /\ LET q == req[r]
         Mine(d) == OwnNote(q, d)
     IN \E found \in FindOne(notes, Mine) :
          req' = Step(r,
                    IF outcome = "error"
                    THEN Respond(Threw(q), InternalError("Internal server error"))
                    ELSE IF found = {}
                    THEN Respond(Called(q), Json(400, ErrorBody("Notes not found")))
                    ELSE [Called(q) EXCEPT !.doc = found, !.pc = "save"])
  /\ UNCHANGED <<users, notes, now, tokens, started, oidSeq>>

\* note.save() answers
EditNotesSave(r, outcome) ==
  /\ req[r].op = "edit-notes"
  /\ req[r].pc = "save"
  /\ LET q == req[r]
         loaded == CHOOSE d \in q.doc : TRUE
         note == Edited(loaded, q.in)
     IN IF outcome = "error" \/ SaveThrows(notes, loaded, note)
        THEN /\ req' = Step(r,
                          Respond(Threw(q), InternalError("Internal server error")))
             /\ notes' = notes
        ELSE /\ notes' = SaveNote(notes, loaded, note)
             /\ req' = Step(r,
                          Respond(Called(q),
                                  Json(200, [error |-> FALSE, note |-> note,
                                             message |-> "Note has been updated"])))
  /\ UNCHANGED <<users, now, tokens, started, oidSeq>>

\* ------------------------------------------------------------ get-all-notes
RECURSIVE NaturalOrder(_)
\* the documents of a set in natural order
NaturalOrder(S) ==
  IF S = {} THEN <<>>
  ELSE LET first == CHOOSE d \in S : \A e \in S : d._id <= e._id
       IN <<first>> \o NaturalOrder(S \ {first})

\* .sort({ isPinned: -1 }): pinned notes first
SortPinned(S) ==
  NaturalOrder({d \in S : d.isPinned}) \o NaturalOrder({d \in S : ~d.isPinned})

\* GET /get-all-notes arrives: authenticateToken, then Note.find is called
GetAllNotesRecv(r, in) ==
  /\ Free(r)
  /\ LET q == Enter("get-all-notes", in, now)
     IN req' = Step(r, IF q.pc = "handler" THEN [q EXCEPT !.pc = "find"] ELSE q)
  /\ started' = started + 1
  /\ UNCHANGED <<users, notes, now, tokens, oidSeq>>

\* Note.find({ userId: user._id }).sort({ isPinned: -1 }) answers
GetAllNotesFind(r, outcome) ==
  /\ req[r].op = "get-all-notes"
  /\ req[r].pc = "find"
  /\ LET q == req[r]
         user == CHOOSE u \in q.user : TRUE
         found == {d \in notes : d.userId = user._id}
     IN req' = Step(r,
                  IF outcome = "error"
                  THEN Respond(Threw(q), InternalError("Internal server error"))
                  ELSE Respond(Called(q),
                               Json(200, [error |-> FALSE, notes |-> SortPinned(found),
                                          message |-> "All notes retrieved successfully"])))
  /\ UNCHANGED <<users, notes, now, tokens, started, oidSeq>>

\* -------------------------------------------------------------- delete-note
\* Note.deleteOne({ _id: noteId, userId: user._id })
DeleteOne(coll, q) == {d \in coll : ~OwnNote(q, d)}

\* DELETE /delete-note/:noteId arrives: authenticateToken, then Note.findOne is called
DeleteNoteRecv(r, in) ==
  /\ Free(r)
  /\ LET q == Enter("delete-note", in, now)
     IN req' = Step(r, IF q.pc = "handler" THEN [q EXCEPT !.pc = "find"] ELSE q)
  /\ started' = started + 1
  /\ UNCHANGED <<users, notes, now, tokens, oidSeq>>

\* Note.findOne({ userId: user._id, _id: noteId }) answers; Note.deleteOne is called
DeleteNoteFind(r, outcome) ==
  /\ req[r].op = "delete-note"
  /\ req[r].pc = "find"
  /\ LET q == req[r]
         Mine(d) == OwnNote(q, d)
     IN \E found \in FindOne(notes, Mine) :
          req' = Step(r,
                    IF outcome = "error"
                    THEN Respond(Threw(q), Json(400, ErrorBody("Note not found")))
                    ELSE IF found = {}
                    THEN Respond(Called(q), Json(400, ErrorBody("Note not found")))
                    ELSE [Called(q) EXCEPT !.doc = found, !.pc = "delete"])
  /\ UNCHANGED <<users, notes, now, tokens, started, oidSeq>>

\* Note.deleteOne answers
DeleteNoteDelete(r, outcome) ==
  /\ req[r].op = "delete-note"
  /\ req[r].pc = "delete"
  /\ LET q == req[r]
     IN IF outcome = "error"
        THEN /\ req' = Step(r,
                          Respond(Threw(q), Json(400, ErrorBody("Note not found"))))
             /\ notes' = notes
        ELSE /\ notes' = DeleteOne(notes, q)
             /\ req' = Step(r,
                          Respond(Called(q),
                                  Json(200, [error |-> FALSE,
                                             message |-> "Note deleted successfully"])))
  /\ UNCHANGED <<users, now, tokens, started, oidSeq>>

\* ----------------------------------------------------- update-note-ispinned
\* the note Note.findOne answered with, after note.isPinned = isPinned || false
Pinned(note, in) == [note EXCEPT !.isPinned = (in.isPinned = {TRUE})]

\* PUT /update-note-ispinned/:noteId arrives: authenticateToken, the isPinned
\* check, then Note.findOne is called
UpdatePinnedRecv(r, in) ==
  /\ Free(r)
  /\ LET q == Enter("update-note-ispinned", in, now)
     IN req' = Step(r,
                  IF q.pc # "handler" THEN q
                  ELSE IF in.isPinned = {}
                  THEN Respond(q, Json(400, ErrorBody("No changes provided")))
                  ELSE [q EXCEPT !.pc = "find"])
  /\ started' = started + 1
  /\ UNCHANGED <<users, notes, now, tokens, oidSeq>>

\* Note.findOne({ _id: noteId, userId: user._id }) answers; note.save() is called
UpdatePinnedFind(r, outcome) ==
  /\ req[r].op = "update-note-ispinned"
  /\ req[r].pc = "find"
  /\ LET q == req[r]
         Mine(d) == OwnNote(q, d)
     IN \E found \in FindOne(notes, Mine) :
          req' = Step(r,
                    IF outcome = "error"
                    THEN Respond(Threw(q), InternalError("Internal server error"))
                    ELSE IF found = {}
                    THEN Respond(Called(q), Json(404, ErrorBody("Note not found")))
                    ELSE [Called(q) EXCEPT !.doc = found, !.pc = "save"])
  /\ UNCHANGED <<users, notes, now, tokens, started, oidSeq>>

\* note.save() answers
UpdatePinnedSave(r, outcome) ==
  /\ req[r].op = "update-note-ispinned"
  /\ req[r].pc = "save"
  /\ LET q == req[r]
         loaded == CHOOSE d \in q.doc : TRUE
         note == Pinned(loaded, q.in)
     IN IF outcome = "error" \/ SaveThrows(notes, loaded, note)
        THEN /\ req' = Step(r,
                          Respond(Threw(q), InternalError("Internal server error")))
             /\ notes' = notes
        ELSE /\ notes' = SaveNote(notes, loaded, note)
             /\ req' = Step(r,
                          Respond(Called(q),
                                  Json(200, [error |-> FALSE, note |-> note,
                                             message |-> "Note pinned change successfully"])))
  /\ UNCHANGED <<users, now, tokens, started, oidSeq>>

\* ------------------------------------------------------------- search-notes
\* new RegExp(query, "i") throws on a pattern that does not compile
BadPattern(query) == query = <<"(">>

\* { $regex: new RegExp(query, "i") } on a text: the pattern occurs in it
RECURSIVE Occurs(_, _)
Occurs(query, text) ==
  /\ Len(text) >= Len(query)
  /\ \/ SubSeq(text, 1, Len(query)) = query
     \/ Occurs(query, Tail(text))

\* GET /search-notes arrives: authenticateToken, the query check, then the
\* patterns are compiled and Note.find is called
SearchNotesRecv(r, in) ==
  /\ Free(r)
  /\ LET q == Enter("search-notes", in, now)
     IN req' = Step(r,
                  IF q.pc # "handler" THEN q
                  ELSE IF in.query = <<>>
                  THEN Respond(q, Json(400, ErrorBody("Search query is needed!")))
                  ELSE IF BadPattern(in.query)
                  THEN Respond(q, InternalError("Internal Server Error"))
                  ELSE [q EXCEPT !.pc = "find"])
  /\ started' = started + 1
  /\ UNCHANGED <<users, notes, now, tokens, oidSeq>>

\* Note.find({ userId: user._id, $or: [title, content] }) answers
SearchNotesFind(r, outcome) ==
  /\ req[r].op = "search-notes"
  /\ req[r].pc = "find"
  /\ LET q == req[r]
         user == CHOOSE u \in q.user : TRUE
         found == {d \in notes : /\ d.userId = user._id
                                 /\ \/ Occurs(q.in.query, d.title)
                                    \/ Occurs(q.in.query, d.content)}
     IN req' = Step(r,
                  IF outcome = "error"
                  THEN Respond(Threw(q), InternalError("Internal Server Error"))
                  ELSE Respond(Called(q),
                               Json(200, [error |-> FALSE, notes |-> NaturalOrder(found),
                                          message |-> "Search notes successfully retrieved"])))
  /\ UNCHANGED <<users, notes, now, tokens, started, oidSeq>>

\* time passes: the clock reads t at the next step
Tick(t) ==
  /\ now < t
  /\ t <= MaxTime
  /\ now' = t
  /\ UNCHANGED <<users, notes, req, tokens, started, oidSeq>>

\* the store loses an account behind the server's back (dropped or restored
\* collection, manual removal): the case get-user's `if (!isUser)` is written for
AccountRemoved(u) ==
  /\ u \in users
  /\ users' = users \ {u}
  /\ UNCHANGED <<notes, now, req, tokens, started, oidSeq>>

\* ------------------------------------------------------------ request sets
Pass1 == <<"p", "a", "s", "s", "1">>
Milk == <<"m", "i", "l", "k">>
Eggs == <<"e", "g", "g", "s">>
Buy == <<"b", "u", "y">>

\* the note ids a client may name: the stored ones and one that is not stored
NoteIds == {d._id : d \in notes} \cup {0}

\* an optional boolean of a request body: absent, true or false
OptBool == {{}, {TRUE}, {FALSE}}

TokenOnly == [token : TokenInputs]

AddNotesInputs ==
  [token : TokenInputs, title : {Milk, <<>>}, content : {Buy}, tags : {{<<>>}}]

EditNotesInputs ==
  [token : TokenInputs, noteId : NoteIds, title : {Eggs}, content : {Buy},
   tags : {{<<>>}}, isPinned : OptBool]

NoteIdInputs == [token : TokenInputs, noteId : NoteIds]

UpdatePinnedInputs == [token : TokenInputs, noteId : NoteIds, isPinned : OptBool]

SearchNotesInputs == [token : TokenInputs, query : {<<>>, <<"g">>, <<"(">>}]

\* -------------------------------------------------------------------- specs
Register ==
  \/ \E r \in Req : Free(r) /\ \E in \in RegisterInputs : CreateAccountRecv(r, in)
  \/ \E r \in Req, o \in StoreOutcomes : CreateAccountFind(r, o)
  \/ \E r \in Req, s \in Salts, o \in StoreOutcomes : CreateAccountSave(r, s, o)

Login ==
  \/ \E r \in Req : Free(r) /\ \E in \in LoginInputs : LoginRecv(r, in)
  \/ \E r \in Req, o \in StoreOutcomes : LoginFind(r, o)

GetUser ==
  \/ \E r \in Req : Free(r) /\ \E in \in TokenOnly : GetUserRecv(r, in)
  \/ \E r \in Req, o \in StoreOutcomes : GetUserFind(r, o)

AddNotes ==
  \/ \E r \in Req : Free(r) /\ \E in \in AddNotesInputs : AddNotesRecv(r, in)
  \/ \E r \in Req, o \in StoreOutcomes : AddNotesSave(r, o)

EditNotes ==
  \/ \E r \in Req : Free(r) /\ \E in \in EditNotesInputs : EditNotesRecv(r, in)
  \/ \E r \in Req, o \in StoreOutcomes : EditNotesFind(r, o)
  \/ \E r \in Req, o \in StoreOutcomes : EditNotesSave(r, o)

GetAllNotes ==
  \/ \E r \in Req : Free(r) /\ \E in \in TokenOnly : GetAllNotesRecv(r, in)
  \/ \E r \in Req, o \in StoreOutcomes : GetAllNotesFind(r, o)

DeleteNote ==
  \/ \E r \in Req : Free(r) /\ \E in \in NoteIdInputs : DeleteNoteRecv(r, in)
  \/ \E r \in Req, o \in StoreOutcomes : DeleteNoteFind(r, o)
  \/ \E r \in Req, o \in StoreOutcomes : DeleteNoteDelete(r, o)

UpdatePinned ==
  \/ \E r \in Req : Free(r) /\ \E in \in UpdatePinnedInputs : UpdatePinnedRecv(r, in)
  \/ \E r \in Req, o \in StoreOutcomes : UpdatePinnedFind(r, o)
  \/ \E r \in Req, o \in StoreOutcomes : UpdatePinnedSave(r, o)

SearchNotes ==
  \/ \E r \in Req : Free(r) /\ \E in \in SearchNotesInputs : SearchNotesRecv(r, in)
  \/ \E r \in Req, o \in StoreOutcomes : SearchNotesFind(r, o)

Next ==
  \/ Register
  \/ Login
  \/ GetUser
  \/ AddNotes
  \/ EditNotes
  \/ GetAllNotes
  \/ DeleteNote
  \/ UpdatePinned
  \/ SearchNotes
  \/ \E t \in 1..MaxTime : Tick(t)

Spec == Init /\ [][Next]_vars

\* registration and login alone, with every request body
NextAuth ==
  \/ Register
  \/ Login

SpecAuth == Init /\ [][NextAuth]_vars

\* registration with one password, and the protected routes
RegisterOnePassword ==
  \/ \E r \in Req : Free(r) /\ \E in \in [fullName : {"Alice A"}, email : Emails, password : {Pass1}] :
       CreateAccountRecv(r, in)
  \/ \E r \in Req, o \in StoreOutcomes : CreateAccountFind(r, o)
  \/ \E r \in Req, s \in Salts, o \in StoreOutcomes : CreateAccountSave(r, s, o)

NextNotes ==
  \/ RegisterOnePassword
  \/ GetUser
  \/ AddNotes
  \/ EditNotes
  \/ GetAllNotes
  \/ DeleteNote
  \/ UpdatePinned
  \/ SearchNotes

SpecNotes == Init /\ [][NextNotes]_vars

\* one account, its tokens and the clock: registration, login and get-user
\* with every kind of token, while time passes
AliceOnly ==
  \/ \E r \in Req : Free(r) /\ \E in \in [fullName : {"Alice A"}, email : {"alice@x.com"}, password : {Pass1}] :
       CreateAccountRecv(r, in)
  \/ \E r \in Req, o \in StoreOutcomes : CreateAccountFind(r, o)
  \/ \E r \in Req, s \in Salts, o \in StoreOutcomes : CreateAccountSave(r, s, o)
  \/ \E r \in Req : Free(r) /\ \E in \in [email : {"alice@x.com"}, password : {Pass1}] :
       LoginRecv(r, in)
  \/ \E r \in Req, o \in StoreOutcomes : LoginFind(r, o)
  \/ \E r \in Req : Free(r) /\ \E in \in [token : AnyTokenInputs] : GetUserRecv(r, in)
  \/ \E r \in Req, o \in StoreOutcomes : GetUserFind(r, o)

\* the clock readings around the expiry of a token issued at 0
Readings == (TokenTTL - 1)..MaxTime

NextTime ==
  \/ AliceOnly
  \/ \E t \in Readings : Tick(t)

SpecTime == Init /\ [][NextTime]_vars

\* registration and get-user over a store that may lose accounts
NextStore ==
  \/ RegisterOnePassword
  \/ GetUser
  \/ \E u \in users : AccountRemoved(u)

SpecStore == Init /\ [][NextStore]_vars

\* ------------------------------------------------------------------- claims
\* slot r holds a request in flight and this step runs its handler
Acting(r) == ~Returned(r) /\ req'[r] # req[r]

\* slot r holds a request whose response has been sent
Done(r) == req[r].pc = "done"

\* the account id the validated token of a request names
Identity(q) == (CHOOSE u \in q.user : TRUE)._id

\* C1: no two account records in the store share an email, whatever the
\* interleaving of concurrently handled registrations.
C1_EmailUnique ==
  \A u1 \in users, u2 \in users : u1.email = u2.email => u1 = u2

\* the documents a response body carries outside the signed token
BodyDocuments(body) ==
  (IF "user" \in DOMAIN body THEN {body.user} ELSE {})
  \cup (IF "note" \in DOMAIN body THEN {body.note} ELSE {})
  \cup (IF "notes" \in DOMAIN body THEN {body.notes[i] : i \in DOMAIN body.notes} ELSE {})

\* C3: no response payload of any operation carries an account's password
\* hash outside the signed token string.
C3_NoHashInPayload ==
  \A r \in Req :
    Done(r) =>
      \A d \in BodyDocuments(req[r].resp.body) : "password" \notin DOMAIN d

\* C4: a registration whose email is held by a stored account when the lookup
\* answers is refused with "User already exists"; the step leaves the account
\* store as it was and sends no token.
C4_DuplicateRefused ==
  [][\A r \in Req :
       (/\ Acting(r)
        /\ req[r].op = "create-account"
        /\ req[r].pc = "find"
        /\ \E u \in users : u.email = req[r].in.email)
       => /\ users' = users
          /\ tokens' = tokens
          /\ Sent(req'[r].resp) = {}
          /\ req'[r].pc = "done"
          /\ ~req'[r].fault =>
               req'[r].resp = Json(400, ErrorBody("User already exists"))]_vars

\* a duplicate registration has been refused while the account is stored
C4_Witness ==
  \E r \in Req :
    /\ Done(r)
    /\ req[r].op = "create-account"
    /\ req[r].resp = Json(400, ErrorBody("User already exists"))
    /\ \E u \in users : u.email = req[r].in.email

\* C2: a request handled under B's validated identity never receives a note
\* whose owner is another account, and no step of such a request changes or
\* removes a note whose owner is another account, even when the request names
\* that note's id.
C2_OwnershipIsolation ==
  [][\A r \in Req :
       /\ (Done(r)' /\ req'[r].gate = "passed" /\ req'[r].op # "get-user") =>
            \A d \in BodyDocuments(req'[r].resp.body) : d.userId = Identity(req'[r])
       /\ (Acting(r) /\ req[r].gate = "passed") =>
            /\ \A d \in notes : d.userId # Identity(req[r]) => d \in notes'
            /\ \A d \in notes' : d.userId # Identity(req[r]) => d \in notes]_vars

\* a request of another account that named the id of a stored note has ended,
\* and the note is still stored
C2_Witness ==
  \E r \in Req :
    /\ Done(r)
    /\ req[r].op \in {"edit-notes", "delete-note", "update-note-ispinned"}
    /\ req[r].gate = "passed"
    /\ req[r].calls > 0
    /\ \E d \in notes : d._id = req[r].in.noteId /\ d.userId # Identity(req[r])

\* the protected operations
GatedOps ==
  {"get-user", "add-notes", "edit-notes", "get-all-notes", "delete-note",
   "update-note-ispinned", "search-notes"}

\* C5: every request of a protected operation goes through token validation
\* before any store call, and a request whose validation failed has ended with
\* an error and made no store call.
C5_ValidationGate ==
  \A r \in Req :
    req[r].op \in GatedOps =>
      /\ req[r].gate \in {"passed", "failed"}
      /\ req[r].calls > 0 => req[r].gate = "passed"
      /\ req[r].gate = "failed" =>
           /\ req[r].calls = 0
           /\ Done(r)
           /\ req[r].resp.status = 401
           /\ req[r].resp.body.error

\* a delete-note request that carried a changed token was turned away
C5_Witness ==
  \E r \in Req :
    /\ req[r].op = "delete-note"
    /\ req[r].gate = "failed"
    /\ req[r].in.token # NoToken
    /\ \E d \in notes : d._id = req[r].in.noteId

\* account u was registered with the raw password
RegisteredWith(u, password) == \E salt \in Salts : u.password = Hash(password, salt)

\* C6: a registration whose email was free at the lookup stores exactly one
\* account and succeeds, the stored password never equals a raw password, and
\* a login with the email and the raw password of a registered account
\* succeeds with a token.
C6_RegisterThenLogin ==
  [][/\ \A u \in users', in \in RegisterInputs : u.password # in.password
     /\ \A r \in Req :
          (/\ Acting(r)
           /\ req[r].op = "create-account"
           /\ req[r].pc = "save"
           /\ ~req'[r].fault)
          => /\ users' = users \cup req'[r].doc
             /\ Cardinality(users') = Cardinality(users) + 1
             /\ req'[r].resp.status = 200
     /\ \A r \in Req :
          (/\ Acting(r)
           /\ req[r].op = "login"
           /\ req[r].pc = "find"
           /\ ~req'[r].fault
           /\ \E u \in users : /\ u.email = req[r].in.email
                               /\ RegisteredWith(u, req[r].in.password))
          => /\ req'[r].resp.status = 200
             /\ Sent(req'[r].resp) # {}]_vars

\* the token was issued at `at` and is accepted exactly during the hour after
Lifetime(tok, at, t) ==
  /\ tok.iat = at
  /\ tok.exp = at + TokenTTL
  /\ Authenticate(tok, t).ok <=> t < at + TokenTTL
  /\ t >= at + TokenTTL => Authenticate(tok, t).kind = "ExpiredToken"

\* C7: a token sent by create-account or login expires one hour after it was
\* issued: validation accepts it at every clock reading before that, rejects
\* it with ExpiredToken at every reading from then on, a token once rejected
\* is never accepted again, and a protected request is let through or turned
\* away accordingly.
C7_TokenLifetime ==
  [][/\ \A tok \in tokens' \ tokens : Lifetime(tok, now, now)
     /\ \A tok \in tokens :
          /\ Lifetime(tok, tok.iat, now')
          /\ ~Authenticate(tok, now).ok => ~Authenticate(tok, now').ok
     /\ \A r \in Req :
          (Free(r) /\ started' # started /\ Protected(req'[r].op)
                   /\ req'[r].in.token \in tokens)
          => IF now < req'[r].in.token.iat + TokenTTL
             THEN req'[r].gate = "passed"
             ELSE req'[r].resp = AuthError("ExpiredToken")]_vars

\* a token issued 61 minutes ago was rejected as expired
C7_Witness ==
  \E r \in Req :
    /\ Done(r)
    /\ req[r].op = "get-user"
    /\ req[r].in.token \in tokens
    /\ now = req[r].in.token.iat + TokenTTL + 1
    /\ req[r].resp = AuthError("ExpiredToken")

\* C8: validating a token right after create-account or login issued it yields
\* the stored account it was issued for, and a request let through with an
\* issued token is scoped by that account's id; get-user answers with it.
C8_TokenRoundTrip ==
  [][\A r \in Req :
       /\ (Acting(r) /\ Sent(req'[r].resp) # {}) =>
            \A tok \in Sent(req'[r].resp) :
              /\ Authenticate(tok, now).ok
              /\ {Authenticate(tok, now).payload.user} = req'[r].doc
              /\ req'[r].doc \subseteq users'
              /\ \A u \in req'[r].doc : u.email = req[r].in.email
       /\ (req'[r].op # "none" /\ Protected(req'[r].op) /\ req'[r].gate = "passed") =>
            /\ req'[r].in.token \in tokens
            /\ \E u \in users : /\ u._id = Identity(req'[r])
                                /\ u = req'[r].in.token.payload.user
            /\ (Done(r)' /\ req'[r].op = "get-user" /\ req'[r].resp.status = 200) =>
                 /\ req'[r].resp.body.user._id = req'[r].in.token.payload.user._id
                 /\ req'[r].resp.body.user.email = req'[r].in.token.payload.user.email]_vars

\* get-user answered a request that carried the token of a login
C8_Witness ==
  \E r \in Req :
    /\ Done(r)
    /\ req[r].op = "get-user"
    /\ req[r].resp.status = 200
    /\ req[r].in.token.iat > 0
    /\ req[r].resp.body.user._id = req[r].in.token.payload.user._id

\* C9: when the lookup of a login answers, no account with the email gives
\* "User not found", an account whose hash the password does not match gives
\* "Invalid Credential", a token is sent only for a stored account whose hash
\* the password matches, and no login step changes the account store; a
\* failed login sends no token.
C9_LoginOutcomes ==
  [][\A r \in Req :
       (Acting(r) /\ req[r].op = "login" /\ req[r].pc = "find") =>
         /\ users' = users
         /\ Done(r)'
         /\ (~req'[r].fault /\ ~\E u \in users : u.email = req[r].in.email) =>
              req'[r].resp = Json(400, ErrorBody("User not found, check your email"))
         /\ \A u \in req'[r].doc :
              ~RegisteredWith(u, req[r].in.password) =>
                req'[r].resp = Json(400, ErrorBody("Invalid Credential"))
         /\ Sent(req'[r].resp) # {} =>
              \E u \in users : /\ req'[r].doc = {u}
                               /\ u.email = req[r].in.email
                               /\ RegisteredWith(u, req[r].in.password)
         /\ req'[r].resp.status # 200 => tokens' = tokens /\ Sent(req'[r].resp) = {}]_vars

\* a login with a wrong password for a stored account was refused
C9_Witness ==
  \E r \in Req :
    /\ Done(r)
    /\ req[r].op = "login"
    /\ req[r].resp = Json(400, ErrorBody("Invalid Credential"))
    /\ \E u \in users : u.email = req[r].in.email
    /\ tokens # {}

\* the response the same login gets when no account holds the email
Unregistered(q) == LoginResponse({}, q.in.email, q.in.password, now)

\* a login for a stored account that failed on the password
WrongPassword(r) ==
  /\ Done(r)
  /\ req[r].op = "login"
  /\ req[r].doc # {}
  /\ req[r].resp.status # 200

\* C10 as claimed: a login that fails on the password gets the very response
\* the same login gets when the email is not registered.
C10_Indistinguishable ==
  \A r \in Req : WrongPassword(r) => req[r].resp = Unregistered(req[r])

\* C10: a login that fails on the password and the same login for an email
\* that is not registered get the same status and the same body fields,
\* error: true and a message, no token and no account data; the message
\* differs.
C10_SameShape ==
  \A r \in Req :
    WrongPassword(r) =>
      /\ req[r].resp.status = Unregistered(req[r]).status
      /\ DOMAIN req[r].resp.body = DOMAIN Unregistered(req[r]).body
      /\ DOMAIN req[r].resp.body = {"error", "message"}
      /\ req[r].resp.body.error = Unregistered(req[r]).body.error
      /\ req[r].resp.body.message # Unregistered(req[r]).body.message

\* a login for a stored account has failed on the password
C10_Witness ==
  \E r \in Req : WrongPassword(r) /\ req[r].resp.body.message = "Invalid Credential"

\* C11: every request whose handler has returned was sent a response, and a
\* request that failed (validation, token, lookup, store call) was sent an
\* error response: never a success, never nothing.
C11_EveryFailureAnswered ==
  \A r \in Req :
    (req[r].op # "none" /\ Returned(r)) =>
      /\ req[r].pc = "done"
      /\ req[r].resp.status # 0
      /\ (req[r].fault \/ req[r].gate = "failed") =>
           /\ req[r].resp.status >= 400
           /\ req[r].resp.body.error

\* C12: a registration whose insert the store refuses while a stored account
\* already holds the email (the loser of a race between two registrations) is
\* answered with "User already exists", as a duplicate found at the lookup is.
C12_DuplicateKeyTranslated ==
  \A r \in Req :
    (/\ Done(r)
     /\ req[r].op = "create-account"
     /\ req[r].fault
     /\ req[r].calls = 2
     /\ \E u \in users : u.email = req[r].in.email)
    => req[r].resp = Json(400, ErrorBody("User already exists"))

\* C13: a request one of whose store calls threw has ended right there (the
\* call is not made again) with the generic internal-fault response, status
\* 500 and an error body, whatever the operation.
C13_StoreFailureIsInternalFault ==
  \A r \in Req :
    (req[r].op # "none" /\ req[r].fault) =>
      /\ Done(r)
      /\ req[r].resp.status = 500
      /\ req[r].resp.body.error
      /\ DOMAIN req[r].resp.body = {"error", "message"}

\* every operation over the accounts registered with one password: the
\* protected routes, and login with that password
LoginOnePassword ==
  \/ \E r \in Req : Free(r) /\ \E in \in [email : Emails, password : {Pass1}] :
       LoginRecv(r, in)
  \/ \E r \in Req, o \in StoreOutcomes : LoginFind(r, o)

NextAccounts ==
  \/ NextNotes
  \/ LoginOnePassword

SpecAccounts == Init /\ [][NextAccounts]_vars

\* C14: a step changes the account store only when it is the save of a
\* registration that succeeds, and then it adds exactly one record and keeps
\* every stored account as it was; login, get-user and the note operations,
\* successful or failed, leave the account store unchanged.
C14_AccountsImmutable ==
  [][/\ users \subseteq users'
     /\ users' # users =>
          \E r \in Req :
            /\ Acting(r)
            /\ req[r].op = "create-account"
            /\ req[r].pc = "save"
            /\ req'[r].resp.status = 200
            /\ Cardinality(users') = Cardinality(users) + 1
            /\ users' = users \cup req'[r].doc
     /\ \A r \in Req :
          (Acting(r) /\ req[r].op # "create-account") => users' = users]_vars

\* a login and a note operation have ended while an account is stored
C14_Witness ==
  /\ users # {}
  /\ notes # {}
  /\ \E r \in Req : Done(r) /\ req[r].op = "login" /\ req[r].resp.status = 200

\* the token create-account sent when it stored account u
RegistrationToken(u) == IssueToken([user |-> u], u.createdOn)

\* C15: the token a successful login sends is not the token the registration
\* of that account sent, at whatever clock reading the login is handled.
C15_LoginTokenFresh ==
  [][\A r \in Req :
       (Acting(r) /\ req[r].op = "login" /\ Sent(req'[r].resp) # {}) =>
         \A u \in req'[r].doc :
           /\ RegistrationToken(u) \in tokens
           /\ RegistrationToken(u) \notin Sent(req'[r].resp)]_vars

\* C16: a note enters the store only at the save of an add-notes request, with
\* the account id of that request's validated token as its owner id, and no
\* step of any request changes the owner id of a stored note.
C16_OwnerFixed ==
  [][/\ \A d \in notes, e \in notes' : d._id = e._id => e.userId = d.userId
     /\ \A e \in notes' :
          (\A d \in notes : d._id # e._id) =>
            \E r \in Req :
              /\ Acting(r)
              /\ req[r].op = "add-notes"
              /\ req[r].gate = "passed"
              /\ Authenticate(req[r].in.token, now).ok
              /\ e.userId = req[r].in.token.payload.user._id
              /\ \E u \in users : u._id = e.userId]_vars

\* the owner has edited or pinned a note, and the note is stored with its owner
C16_Witness ==
  \E r \in Req :
    /\ Done(r)
    /\ req[r].op \in {"edit-notes", "update-note-ispinned"}
    /\ req[r].resp.status = 200
    /\ \E d \in notes : /\ d._id = req[r].in.noteId
                        /\ d.userId = Identity(req[r])
                        /\ d.isPinned
                        /\ d.title = Eggs

\* the stored note with the id the request names
Stored(coll, q) == {d \in coll : d._id = q.in.noteId}

\* C17: a step of edit-notes leaves the pinned flag of every stored note as it
\* was or turns it on, and turns it on only when the request says isPinned
\* true; a step that turns a flag off is the save of an update-note-ispinned
\* request; after a save of update-note-ispinned that succeeded the stored
\* flag is the requested boolean; an update-note-ispinned request without
\* isPinned is rejected and changes nothing.
C17_PinTransitions ==
  [][\A r \in Req :
       /\ (Acting(r) /\ req[r].op = "edit-notes") =>
            \A d \in notes, e \in notes' :
              d._id = e._id =>
                /\ d.isPinned => e.isPinned
                /\ e.isPinned # d.isPinned =>
                     /\ req[r].in.isPinned = {TRUE}
                     /\ d._id = req[r].in.noteId
       /\ (Acting(r) /\ \E d \in notes, e \in notes' :
                          d._id = e._id /\ d.isPinned /\ ~e.isPinned)
            => req[r].op = "update-note-ispinned" /\ req[r].pc = "save"
       /\ (Acting(r) /\ req[r].op = "update-note-ispinned" /\ req[r].pc = "save"
                     /\ req'[r].resp.status = 200)
            => \A e \in Stored(notes', req[r]) :
                 e.isPinned = (req[r].in.isPinned = {TRUE})
       /\ (Free(r) /\ started' # started /\ req'[r].op = "update-note-ispinned"
                   /\ req'[r].gate = "passed" /\ req'[r].in.isPinned = {})
            => /\ req'[r].resp = Json(400, ErrorBody("No changes provided"))
               /\ notes' = notes]_vars
=============================================================================
